---- MODULE Spec2Model ----
(***************************************************************************)
(* Model of export_collections_as_glb_files.py: a Blender script that      *)
(* exports every top-level collection of the scene as one .glb file,       *)
(* recentred on the collection's "_root" object.                           *)
(*                                                                         *)
(* Text (object names, collection names, paths) is modelled as sequences   *)
(* of one-character strings, so that the substring test and the path join  *)
(* are computed as Python computes them.  Locations are integer triples    *)
(* (small integers are exact in the host's floating point vectors).        *)
(***************************************************************************)
EXTENDS Integers, Sequences, FiniteSets, TLC

\* Largest number of top-level collections of the scenes explored.
MaxCollections == 2

----------------------------------------------------------------------------
\* Text helpers (Python str operations used by the script)

\* "_root", the literal of line 46
Marker == <<"_", "r", "o", "o", "t">>

\* ".glb", the literal of line 82
GlbExtension == <<".", "g", "l", "b">>

\* bpy.path.abspath("//glb_exports/") for a project saved in /p
export_directory ==
    <<"/", "p", "/", "g", "l", "b", "_", "e", "x", "p", "o", "r", "t", "s", "/">>

\* Python: sub in s
Contains(sub, s) ==
    \E i \in 1..(Len(s) - Len(sub) + 1) : SubSeq(s, i, i + Len(sub) - 1) = sub

\* Python: s.endswith(sub)
EndsWith(s, sub) ==
    /\ Len(s) >= Len(sub)
    /\ SubSeq(s, Len(s) - Len(sub) + 1, Len(s)) = sub

\* Python (posix): os.path.join(a, b)
OsPathJoin(a, b) ==
    IF Len(b) > 0 /\ b[1] = "/" THEN b
    ELSE IF Len(a) = 0 \/ a[Len(a)] = "/" THEN a \o b
    ELSE a \o <<"/">> \o b

\* mathutils.Vector subtraction, component by component
VecSub(a, b) == <<a[1] - b[1], a[2] - b[2], a[3] - b[3]>>

Origin == <<0, 0, 0>>

----------------------------------------------------------------------------
\* The host scene: objects (unique names, a type tag, a location) and
\* collections.  The objects of the scenes explored:

SceneObjects ==
    << [name |-> <<"K", "_", "r", "o", "o", "t">>,           type |-> "CAMERA",
        location |-> <<0, 3, 8>>],
       [name |-> <<"A">>,                                     type |-> "MESH",
        location |-> <<1, 2, 3>>],
       [name |-> <<"B", "_", "r", "o", "o", "t", ".", "1">>, type |-> "MESH",
        location |-> <<5, 0, -2>>],
       [name |-> <<"C", "_", "r", "o", "o", "t">>,           type |-> "MESH",
        location |-> <<-4, 7, 1>>],
       [name |-> <<"S", "u", "n">>,                           type |-> "LIGHT",
        location |-> <<6, -1, 2>>] >>

Objects == DOMAIN SceneObjects

\* find_root_object's "not found"
None == 0

ObjName(o) == SceneObjects[o].name
ObjType(o) == SceneObjects[o].type
InitialLocation(o) == SceneObjects[o].location

\* Names of the top-level collections, by position among the scene's children
CollectionNames ==
    << <<"P", "r", "o", "p", "s">>,
       <<"/", "E", "n", "v">>,
       <<"C", "h", "a", "r", "s">>,
       <<"S", "e", "t">> >>

RECURSIVE SortedSeq(_)
\* A collection's objects in the host's enumeration order
SortedSeq(S) ==
    IF S = {} THEN <<>>
    ELSE LET m == CHOOSE x \in S : \A y \in S : x <= y
         IN  <<m>> \o SortedSeq(S \ {m})

\* The objects every nested (non-top-level) collection holds
NestedObjects == <<2, 4>>

\* A top-level collection: its own objects and one child collection
Collection(i, objs) ==
    [name     |-> CollectionNames[i],
     objects  |-> SortedSeq(objs),
     children |-> << [name     |-> CollectionNames[i] \o <<".", "s", "u", "b">>,
                      objects  |-> NestedObjects,
                      children |-> <<>>] >>]

Range(s) == {s[i] : i \in DOMAIN s}

----------------------------------------------------------------------------
VARIABLES
    scene_children,          \* bpy.context.scene.collection.children
    location,                \* obj.location of every object
    selected,                \* the host's selection state
    directory_exists,        \* os.path.exists(export_directory)
    pc,                      \* position of the script
    index,                   \* position of the top-level loop (line 95)
    objects_in_collection,   \* locals of export_collection
    root_object,
    original_positions,
    gltf_calls,              \* the invocations of bpy.ops.export_scene.gltf
    stdout                   \* what the script has printed

vars == <<scene_children, location, selected, directory_exists, pc, index,
          objects_in_collection, root_object, original_positions,
          gltf_calls, stdout>>

locals == <<objects_in_collection, root_object, original_positions>>

NoPositions == [o \in {} |-> Origin]

Init ==
    /\ \E n \in 0..MaxCollections :
         \E f \in [1..n -> SUBSET Objects] :
            scene_children = [i \in 1..n |-> Collection(i, f[i])]
    /\ location = [o \in Objects |-> InitialLocation(o)]
    /\ selected \in {{}, Objects}
    /\ directory_exists \in BOOLEAN
    /\ pc = "start"
    /\ index = 1
    /\ objects_in_collection = <<>>
    /\ root_object = None
    /\ original_positions = NoPositions
    /\ gltf_calls = <<>>
    /\ stdout = <<>>

\* The collection export_collection is running on
collection == scene_children[index]

----------------------------------------------------------------------------
\* Pure parts of the script

\* line 56 with the test on lights left out
Eligible_lights_kept(objs) ==
    SelectSeq(objs, LAMBDA o : ObjType(o) # "CAMERA")

\* line 56: the list comprehension
Eligible(objs) ==
    SelectSeq(objs, LAMBDA o : ObjType(o) # "CAMERA" /\ ObjType(o) # "LIGHT")

\* lines 43-48
find_root_object(objs) ==
    IF \E i \in DOMAIN objs : Contains(Marker, ObjName(objs[i]))
    THEN objs[CHOOSE i \in DOMAIN objs :
                /\ Contains(Marker, ObjName(objs[i]))
                /\ \A j \in 1..(i - 1) : ~Contains(Marker, ObjName(objs[j]))]
    ELSE None

\* line 82
FilePath(c) == OsPathJoin(export_directory, c.name \o GlbExtension)

\* lines 73-75 with root_position taken without .copy(): it follows the root
\* object, which stands at the origin once it has been moved
Translated_alias(loc, objs, root) ==
    [o \in Objects |->
        IF \E i \in DOMAIN objs :
              objs[i] = o /\ \A j \in 1..(i - 1) : objs[j] # root
        THEN VecSub(loc[o], loc[root])
        ELSE loc[o]]

\* lines 73-75
Translated(loc, objs, root) ==
    [o \in Objects |-> IF o \in Range(objs) THEN VecSub(loc[o], loc[root])
                       ELSE loc[o]]

\* lines 88-89 with the snapshot of line 70 taken without .copy(): the saved
\* vectors are the live ones
Restored_alias(loc, saved) == loc

\* lines 88-89
Restored(loc, saved) ==
    [o \in Objects |-> IF o \in DOMAIN saved THEN saved[o] ELSE loc[o]]

\* the return of export_collection: back in the loop of line 95
Return ==
    /\ pc' = "loop"
    /\ index' = index + 1
    /\ objects_in_collection' = <<>>
    /\ root_object' = None
    /\ original_positions' = NoPositions

----------------------------------------------------------------------------
\* Steps of the script

\* lines 36-37, the directory is there or is created
EnsureDirectory ==
    /\ pc = "start"
    /\ directory_exists' = TRUE
    /\ pc' = "loop"
    /\ UNCHANGED <<scene_children, location, selected, index, locals,
                   gltf_calls, stdout>>

\* line 37, os.makedirs raises
EnsureDirectoryFails ==
    /\ pc = "start"
    /\ ~directory_exists
    /\ pc' = "aborted"
    /\ UNCHANGED <<scene_children, location, selected, directory_exists, index,
                   locals, gltf_calls, stdout>>

\* lines 95-96, the loop calls export_collection on the next child
NextCollection ==
    /\ pc = "loop"
    /\ index <= Len(scene_children)
    /\ pc' = "deselect"
    /\ UNCHANGED <<scene_children, location, selected, directory_exists, index,
                   locals, gltf_calls, stdout>>

\* line 98 reached by leaving the loop at once
Complete_early ==
    /\ pc = "loop"
    /\ stdout' = Append(stdout, <<"complete">>)
    /\ pc' = "done"
    /\ UNCHANGED <<scene_children, location, selected, directory_exists, index,
                   locals, gltf_calls>>

\* line 98, after the loop
Complete ==
    /\ pc = "loop"
    /\ index > Len(scene_children)
    /\ stdout' = Append(stdout, <<"complete">>)
    /\ pc' = "done"
    /\ UNCHANGED <<scene_children, location, selected, directory_exists, index,
                   locals, gltf_calls>>

\* line 53 left out
Deselect_skipped ==
    /\ pc = "deselect"
    /\ pc' = "filter"
    /\ UNCHANGED <<scene_children, location, selected, directory_exists, index,
                   locals, gltf_calls, stdout>>

\* line 53
Deselect ==
    /\ pc = "deselect"
    /\ selected' = {}
    /\ pc' = "filter"
    /\ UNCHANGED <<scene_children, location, directory_exists, index, locals,
                   gltf_calls, stdout>>

\* lines 56-60
Filter ==
    /\ pc = "filter"
    /\ LET objs == Eligible(collection.objects)
       IN  IF objs = <<>>
           THEN Return
           ELSE /\ objects_in_collection' = objs
                /\ pc' = "find"
                /\ UNCHANGED <<index, root_object, original_positions>>
    /\ UNCHANGED <<scene_children, location, selected, directory_exists,
                   gltf_calls, stdout>>

\* lines 63-67 with the search run on collection.objects
FindRoot_unfiltered ==
    /\ pc = "find"
    /\ LET r == find_root_object(collection.objects)
       IN  IF r = None
           THEN /\ stdout' = Append(stdout, <<"warning", collection.name>>)
                /\ Return
           ELSE /\ root_object' = r
                /\ pc' = "snapshot"
                /\ UNCHANGED <<stdout, index, objects_in_collection,
                               original_positions>>
    /\ UNCHANGED <<scene_children, location, selected, directory_exists,
                   gltf_calls>>

\* lines 63-67
FindRoot ==
    /\ pc = "find"
    /\ LET r == find_root_object(objects_in_collection)
       IN  IF r = None
           THEN /\ stdout' = Append(stdout, <<"warning", collection.name>>)
                /\ Return
           ELSE /\ root_object' = r
                /\ pc' = "snapshot"
                /\ UNCHANGED <<stdout, index, objects_in_collection,
                               original_positions>>
    /\ UNCHANGED <<scene_children, location, selected, directory_exists,
                   gltf_calls>>

\* line 70
Snapshot ==
    /\ pc = "snapshot"
    /\ original_positions' =
           [o \in Range(objects_in_collection) |-> location[o]]
    /\ pc' = "translate"
    /\ UNCHANGED <<scene_children, location, selected, directory_exists, index,
                   objects_in_collection, root_object, gltf_calls, stdout>>

\* lines 73-75
Translate ==
    /\ pc = "translate"
    /\ location' = Translated(location, objects_in_collection, root_object)
    /\ pc' = "select"
    /\ UNCHANGED <<scene_children, selected, directory_exists, index, locals,
                   gltf_calls, stdout>>

\* lines 78-79
Select ==
    /\ pc = "select"
    /\ selected' = selected \cup Range(objects_in_collection)
    /\ pc' = "export"
    /\ UNCHANGED <<scene_children, location, directory_exists, index, locals,
                   gltf_calls, stdout>>

\* lines 82-85, the exporter writes the file
Export ==
    /\ pc = "export"
    /\ gltf_calls' = Append(gltf_calls,
           [filepath |-> FilePath(collection), ok |-> TRUE])
    /\ pc' = "restore"
    /\ UNCHANGED <<scene_children, location, selected, directory_exists, index,
                   locals, stdout>>

\* line 85 with the exporter's exception caught and passed over
ExportFails_caught ==
    /\ pc = "export"
    /\ gltf_calls' = Append(gltf_calls,
           [filepath |-> FilePath(collection), ok |-> FALSE])
    /\ pc' = "restore"
    /\ UNCHANGED <<scene_children, location, selected, directory_exists, index,
                   locals, stdout>>

\* line 85, the exporter raises: nothing catches it, the script ends
ExportFails ==
    /\ pc = "export"
    /\ gltf_calls' = Append(gltf_calls,
           [filepath |-> FilePath(collection), ok |-> FALSE])
    /\ pc' = "aborted"
    /\ UNCHANGED <<scene_children, location, selected, directory_exists, index,
                   locals, stdout>>

\* lines 88-89
Restore ==
    /\ pc = "restore"
    /\ location' = Restored(location, original_positions)
    /\ pc' = "deselect_after"
    /\ UNCHANGED <<scene_children, selected, directory_exists, index, locals,
                   gltf_calls, stdout>>

\* line 92 and the return
DeselectAfter ==
    /\ pc = "deselect_after"
    /\ selected' = {}
    /\ Return
    /\ UNCHANGED <<scene_children, location, directory_exists, gltf_calls,
                   stdout>>

Next ==
    \/ EnsureDirectory
    \/ EnsureDirectoryFails
    \/ NextCollection
    \/ Complete
    \/ Deselect
    \/ Filter
    \/ FindRoot
    \/ Snapshot
    \/ Translate
    \/ Select
    \/ Export
    \/ ExportFails
    \/ Restore
    \/ DeselectAfter

Spec == Init /\ [][Next]_vars

\* The interpreter runs the script to its end: a step that can be taken is taken.
FairSpec == Spec /\ WF_vars(Next)

----------------------------------------------------------------------------
\* Vocabulary of the properties, stated on the scene and not through the
\* script's own helpers

InitialLocations == [o \in Objects |-> InitialLocation(o)]

IsEligible(o) == ObjType(o) \notin {"CAMERA", "LIGHT"}

EligibleSet(c) == {o \in Range(c.objects) : IsEligible(o)}

HasPivot(c) == \E o \in EligibleSet(c) : Contains(Marker, ObjName(o))

MissingPivot(c) == EligibleSet(c) # {} /\ ~HasPivot(c)

Exportable(c) == EligibleSet(c) # {} /\ HasPivot(c)

\* the script is inside export_collection
InCollection ==
    pc \in {"deselect", "filter", "find", "snapshot", "translate", "select",
            "export", "restore", "deselect_after"}

Ended == pc \in {"done", "aborted"}

Reported == <<"complete">> \in Range(stdout)

Warned(c) == <<"warning", c.name>> \in Range(stdout)

ExporterFailed == \E k \in DOMAIN gltf_calls : ~gltf_calls[k].ok

Displaced == {o \in Objects : location[o] # InitialLocation(o)}

CallPaths == [k \in DOMAIN gltf_calls |-> gltf_calls[k].filepath]

----------------------------------------------------------------------------
\* C1: once the run has ended, normally or by abort, every object's position
\* equals its position before the run, whatever the exporter calls did.
C1_PositionsRestoredAtEnd ==
    Ended => location = InitialLocations

C3_MissingPivot ==
    [][ (InCollection /\ MissingPivot(collection)) =>
            /\ location' = location
            /\ gltf_calls' = gltf_calls
            /\ pc' # "aborted"
            /\ (index' # index =>
                   /\ index' = index + 1
                   /\ pc' = "loop"
                   /\ stdout' = Append(stdout, <<"warning", collection.name>>))
      ]_vars

\* a collection holding a plain mesh and the camera named K_root was skipped
\* with a warning, and another collection was exported in the same run
C3_Witness ==
    /\ pc = "done"
    /\ Len(scene_children) = 2
    /\ scene_children[1].objects = <<1, 2>>
    /\ Warned(scene_children[1])
    /\ Len(gltf_calls) = 1
    /\ location = InitialLocations

\* C4: when the exporter is invoked, the pivot is the first eligible object, in
\* the collection's order, whose name contains "_root", and every eligible
\* object stands at its original location minus the pivot's original location.
C4_NamedPivot ==
    pc = "export" =>
        LET objs == collection.objects
        IN  \E i \in DOMAIN objs :
              /\ IsEligible(objs[i])
              /\ Contains(Marker, ObjName(objs[i]))
              /\ \A j \in 1..(i - 1) :
                    ~(IsEligible(objs[j]) /\ Contains(Marker, ObjName(objs[j])))
              /\ root_object = objs[i]
              /\ location[objs[i]] = Origin
              /\ \A o \in EligibleSet(collection) :
                    location[o] =
                        VecSub(InitialLocation(o), InitialLocation(objs[i]))

\* A, B_root.1 and C_root together: B_root.1 is the first match
C4_Witness ==
    /\ pc = "export"
    /\ collection.objects = <<1, 2, 3, 4>>
    /\ root_object = 3
    /\ location[2] = <<-4, 2, 5>>
    /\ location[4] = <<-9, 7, 3>>

\* C5: after a run without exporter failure the exporter was invoked once for
\* each top-level collection with an eligible object and a pivot, in the
\* scene's order, with the path output_dir/<collection name>.glb, and for
\* nothing else.
C5_OneFilePerCollection ==
    pc = "done" =>
        LET done == SelectSeq(scene_children, Exportable)
        IN  CallPaths =
              [k \in DOMAIN done |->
                  export_directory \o done[k].name \o GlbExtension]

\* C6: cameras and lights are never moved and are not selected when the
\* exporter is invoked; a collection without eligible objects causes no
\* exporter call, no message, no abort and no change of location.
C6_TypeFiltering ==
    /\ [](\A o \in Objects : ~IsEligible(o) =>
              /\ location[o] = InitialLocation(o)
              /\ (pc = "export" => o \notin selected))
    /\ [][ (InCollection /\ EligibleSet(collection) = {}) =>
              /\ location' = location
              /\ gltf_calls' = gltf_calls
              /\ stdout' = stdout
              /\ pc' # "aborted"
         ]_vars

\* the exporter is invoked for a collection that holds a camera and a light
\* after a collection of only a camera and a light was passed over in silence
C6_Witness ==
    /\ pc = "export"
    /\ index = 2
    /\ scene_children[1].objects = <<1, 5>>
    /\ collection.objects = <<1, 2, 4, 5>>
    /\ stdout = <<>>
    /\ gltf_calls = <<>>
    /\ Displaced = {2, 4}

\* C7: when the exporter is invoked for a collection, the selected objects are
\* exactly the collection's eligible objects.
C7_SelectionExact ==
    pc = "export" => selected = EligibleSet(collection)

\* the second collection is exported after the first one, which held an
\* eligible object the second does not hold
C7_Witness ==
    /\ pc = "export"
    /\ index = 2
    /\ Len(gltf_calls) = 1
    /\ EligibleSet(scene_children[1]) \ EligibleSet(collection) # {}
    /\ Range(NestedObjects) \ EligibleSet(collection) # {}

C9_PivotNameEndsWithMarker ==
    root_object # None => EndsWith(ObjName(root_object), Marker)

\* C10: the objects away from their original location are eligible objects of
\* the one collection that is past its translate step and not past its restore
\* step (the exporter's exception leaves the script at line 85, between the
\* two); when export_collection starts on a collection and when it takes its
\* snapshot, every object is at its original location.
C10_SerializedRecentering ==
    /\ Displaced # {} =>
          /\ pc \in {"select", "export", "restore", "aborted"}
          /\ index <= Len(scene_children)
          /\ Displaced \subseteq EligibleSet(scene_children[index])
    /\ pc = "translate" =>
          original_positions =
              [o \in EligibleSet(collection) |-> InitialLocation(o)]

\* the second collection is recentred while sharing an object with the first,
\* which was exported before
C10_Witness ==
    /\ pc = "export"
    /\ index = 2
    /\ Len(gltf_calls) = 1
    /\ Displaced # {}
    /\ EligibleSet(scene_children[1]) \cap Displaced # {}

====
